---- MODULE Spec2Model ----
(***************************************************************************)
(* A model of pagelistbot's query pipeline:                                *)
(*   - the constraint algebra of parser/src/optim.rs                       *)
(*     (construct_constraints_from_vec, merge_constraints),                *)
(*   - the three optimizer passes of parser/src/optim.rs                   *)
(*     (remove_redundent_talk, remove_empty_ns, remove_nop),               *)
(*   - the interpreter solve_api of solver/src/lib.rs,                     *)
(*   - the category traversal get_category_members_one of solver/src/api.rs*)
(*   - get_backlinks_one, get_prefix_index_one and                         *)
(*     result_array_to_titles_ex of solver/src/api.rs,                     *)
(*   - the page writers of src/routine/pagewriter.rs.                      *)
(* Each component has its own specification (SpecOpt, SpecMerge,           *)
(* SpecConstruct, SpecCat, SpecBacklinks, SpecPrefix, SpecTitles,          *)
(* SpecWriters); the variables of the other components stay at their idle  *)
(* values.                                                                 *)
(***************************************************************************)
EXTENDS Integers, Sequences, FiniteSets, TLC

VARIABLES
    \* ---- optimizer (parser/src/optim.rs) and solver (solver/src/lib.rs)
    ir,         \* the instruction vector being rewritten (Vec<Instruction>)
    res,        \* Query.1, the result register
    orig,       \* the instruction vector the lowering handed over
    pc,         \* position in the pipeline
    idx,        \* the loop index of the running pass (0-based, as in the code)
    stack,      \* remove_empty_ns: the worklist of RegIDs
    nop_dest,   \* remove_nop: `dest` bound by the `if let Nop { dest, op }`
    nop_op,     \* remove_nop: `op` bound by the `if let Nop { dest, op }`
    deleted,    \* remove_nop: the `deleted` flag
    round,      \* how many times the pipeline has been started on `ir`
    out1,       \* the output of the first run of the pipeline
    reg,        \* solve_api: the register file
    calls,      \* solve_api: dests of the instructions that called the WikiAPI
    err,        \* solve_api: the error returned, "" while there is none
    \* ---- construct_constraints_from_vec (parser/src/optim.rs)
    clauses,    \* the argument `orig`: the clause list
    con_pc,     \* position in the function
    con_i,      \* how many clauses the `for` loop has consumed
    con_dep,    \* the local con_dep
    con_ns_set, \* the local con_ns_set
    \* ---- merge_constraints (parser/src/optim.rs)
    ma, mb, mc, \* three constraints handed to merge_constraints
    mstep,      \* how many merges have been made
    mres,       \* the results of the merges made so far
    \* ---- get_category_members_one (solver/src/api.rs)
    subcats,    \* the wiki: the subcategories each category lists
    cat_title,  \* the argument `title`
    cat_ns,     \* the argument `ns`
    cat_depth,  \* the argument `depth`
    cat_pc,     \* position in the function
    ns_clone,   \* the local ns_clone
    result_has_ns_category,
    result_has_ns_file,
    result_set,
    visited_cats,
    visit_cat_queue,
    this_cat,   \* the entry popped from the queue: its title
    this_depth, \* the entry popped from the queue: its level
    requests,   \* the categorymembers requests sent so far
    cat_err,    \* the error returned, "" while there is none
    \* ---- get_backlinks_one (solver/src/api.rs)
    bl_title,   \* the argument `title`
    bl_ns,      \* the argument `ns`
    bl_level_2, \* the argument `level_2`
    bl_redirect_strat, \* the argument `redirect_strat`
    bl_pc,      \* position in the function
    bl_params,  \* the parameters of the request sent
    bl_res,     \* the local res: the response
    bl_result,  \* the set returned
    bl_err,     \* the error returned, "" while there is none
    \* ---- get_prefix_index_one (solver/src/api.rs)
    px_title,   \* the argument `title`
    px_ns,      \* the argument `ns`
    px_redirect_strat, \* the argument `redirect_strat`
    px_pc,      \* position in the function
    px_requests, \* the requests sent so far, oldest first
    px_result,  \* the set returned
    px_err,     \* the error returned, "" while there is none
    \* ---- result_array_to_titles_ex (solver/src/api.rs)
    js_data,    \* the argument `data`
    js_include_redirect, \* the argument `include_redirect`
    js_pc,      \* position of the caller
    js_titles,  \* the vector returned
    \* ---- PageWriter routines (src/routine/pagewriter.rs)
    pw_pc,      \* each routine's position in write_by_output_format
    pw_page,    \* each routine's position in the `for` loop of start
    pw_info,    \* each routine's local `page_query`, what the page-info get returned
    pw_body,    \* each routine's local `body`: "Ok", "Err" or "" before it is set
    lock,       \* the holder of the mutex behind API_SERVICE.get_lock(), 0 if free
    in_flight   \* the API requests sent and not yet answered

optVars == <<ir, res, orig, pc, idx, stack, nop_dest, nop_op, deleted, round,
             out1, reg, calls, err>>
conVars == <<clauses, con_pc, con_i, con_dep, con_ns_set>>
mergeVars == <<ma, mb, mc, mstep, mres>>
catVars == <<subcats, cat_title, cat_ns, cat_depth, cat_pc, ns_clone,
             result_has_ns_category, result_has_ns_file, result_set,
             visited_cats, visit_cat_queue, this_cat, this_depth, requests,
             cat_err>>

blVars == <<bl_title, bl_ns, bl_level_2, bl_redirect_strat, bl_pc, bl_params,
            bl_res, bl_result, bl_err>>
pxVars == <<px_title, px_ns, px_redirect_strat, px_pc, px_requests, px_result,
            px_err>>
jsVars == <<js_data, js_include_redirect, js_pc, js_titles>>
pwVars == <<pw_pc, pw_page, pw_info, pw_body, lock, in_flight>>
apiVars == <<blVars, pxVars, jsVars, pwVars>>

vars == <<optVars, conVars, mergeVars, catVars, apiVars>>

-----------------------------------------------------------------------------
\* Bounds of the model.
MaxLen == 4          \* longest instruction vector the lowering hands over
MaxBinary == 1       \* most And/Or/Exclude/Xor instructions in one vector
MaxRounds == 2       \* how many times the pipeline is run on one vector

-----------------------------------------------------------------------------
\* Base vocabulary (plbot_base, mediawiki::title::Title).

NS_MAIN == 0
NS_TALK == 1
NS_FILE == 6
NS_CATEGORY == 14

\* Option<HashSet<NamespaceID>> and Option<DepthNum>
NoneNs == [some |-> FALSE, set |-> {}]
SomeNs(S) == [some |-> TRUE, set |-> S]
NoneDepth == [some |-> FALSE, val |-> 0]
SomeDepth(d) == [some |-> TRUE, val |-> d]

\* SetConstraint { ns: None, depth: None }
Unconstrained == [ns |-> NoneNs, depth |-> NoneDepth]

Title(n, t) == [ns |-> n, text |-> t]

\* Title::new_from_full: the namespace prefix of the text decides the namespace.
new_from_full(s) ==
    CASE s = "A" -> Title(NS_MAIN, "A")
      [] s = "Talk:A" -> Title(NS_TALK, "A")
      [] s = "Category:C" -> Title(NS_CATEGORY, "C")
      [] OTHER -> Title(NS_MAIN, s)

\* Title::into_toggle_talk: subject namespaces are even, their talk
\* namespaces the next odd number.
toggle_talk(t) ==
    [ns |-> IF t.ns % 2 = 0 THEN t.ns + 1 ELSE t.ns - 1, text |-> t.text]

\* Instruction: one record shape for the eight variants; a variant that has no
\* second operand carries NoReg, one that has no constraint carries
\* Unconstrained, one that has no title list carries {}.
NoReg == 0
BinaryKinds == {"And", "Or", "Exclude", "Xor"}
UnaryKinds == {"LinkTo", "InCat", "Toggle", "Prefix"}

Inst(k, d, a, b, t, c) ==
    [kind |-> k, dest |-> d, op1 |-> a, op2 |-> b, titles |-> t, cs |-> c]

Nop(d, a) == Inst("Nop", d, a, NoReg, {}, Unconstrained)

\* Instruction::get_dest / Instruction::set_dest
get_dest(inst) == inst.dest
set_dest(inst, d) == [inst EXCEPT !.dest = d]

\* Instruction::ns_empty: the instruction carries a namespace constraint that
\* admits no namespace.
ns_empty(inst) == inst.cs.ns.some /\ inst.cs.ns.set = {}

-----------------------------------------------------------------------------
\* The instruction vectors the lowering can hand over: single definition,
\* definition before use, leaves are Set, ordered by dest.

\* the Set instructions: a list of two titles, the same list cut to one title
\* by a namespace filter, and a list under the empty namespace filter
SetChoices ==
    {[titles |-> {"A", "Talk:A"}, ns |-> NoneNs],
     [titles |-> {"A", "Talk:A"}, ns |-> SomeNs({NS_MAIN})],
     [titles |-> {"Category:C"}, ns |-> SomeNs({})]}

SetInsts(d) ==
    {Inst("Set", d, NoReg, NoReg, c.titles, [ns |-> c.ns, depth |-> NoneDepth]) :
        c \in SetChoices}

UnaryInsts(d) ==
    {Inst(k, d, a, NoReg, {}, Unconstrained) :
        k \in {"Toggle", "Prefix", "Nop"}, a \in 1..(d - 1)}
    \cup {Inst("LinkTo", d, a, NoReg, {}, [ns |-> n, depth |-> NoneDepth]) :
        a \in 1..(d - 1), n \in {NoneNs, SomeNs({})}}
    \cup {Inst("InCat", d, a, NoReg, {}, [ns |-> NoneNs, depth |-> SomeDepth(1)]) :
        a \in 1..(d - 1)}

BinaryInsts(d) ==
    {Inst(k, d, a, b, {}, Unconstrained) :
        k \in BinaryKinds, a \in 1..(d - 1), b \in 1..(d - 1)}

NumBinary(p) == Cardinality({i \in 1..Len(p) : p[i].kind \in BinaryKinds})

\* what the lowering may emit next after the vector p
NextInsts(p) ==
    LET d == Len(p) + 1
    IN SetInsts(d) \cup UnaryInsts(d)
       \cup (IF NumBinary(p) < MaxBinary THEN BinaryInsts(d) ELSE {})

Dests(p) == {p[i].dest : i \in 1..Len(p)}

\* strictly ordered by dest
OrderedByDest(p) == \A i \in 1..(Len(p) - 1) : p[i].dest < p[i + 1].dest

-----------------------------------------------------------------------------
\* slice::binary_search_by(|probe| probe.get_dest().cmp(&target)).
\* On a vector ordered by dest every implementation returns the one index
\* holding `target`.  On an unordered vector the result is unspecified by the
\* library; the two implementations that shipped with Rust toolchains are
\* modelled, and a search may return the answer of either.
\* A result is a 1-based index, NotFound for Err(_).
NotFound == 0

\* the loop with an early return on Equal (Rust 1.52 to 1.81)
RECURSIVE bsearch_early(_, _, _, _)
bsearch_early(v, target, left, right) ==
    IF left >= right THEN NotFound
    ELSE LET mid == left + ((right - left) \div 2)
             d == get_dest(v[mid + 1])
         IN IF d < target THEN bsearch_early(v, target, mid + 1, right)
            ELSE IF d > target THEN bsearch_early(v, target, left, mid)
            ELSE mid + 1

\* the halving loop that compares once more at the end (before 1.52, from 1.82)
RECURSIVE bsearch_halving(_, _, _, _)
bsearch_halving(v, target, base, size) ==
    IF size = 0 THEN NotFound
    ELSE IF size > 1
    THEN LET half == size \div 2
             mid == base + half
         IN bsearch_halving(v, target,
                IF get_dest(v[mid + 1]) > target THEN base ELSE mid,
                size - half)
    ELSE IF get_dest(v[base + 1]) = target THEN base + 1 ELSE NotFound

binary_search_by(v, target) ==
    {bsearch_early(v, target, 0, Len(v)), bsearch_halving(v, target, 0, Len(v))}

-----------------------------------------------------------------------------
\* The state of each component before it is started.

\* the register file of a run of the solver that has executed nothing
EmptyReg == <<>>

OptIdle ==
    /\ ir = <<>>
    /\ orig = <<>>
    /\ res = NoReg
    /\ pc = "lowering"
    /\ idx = 0
    /\ stack = <<>>
    /\ nop_dest = NoReg
    /\ nop_op = NoReg
    /\ deleted = FALSE
    /\ round = 0
    /\ out1 = <<>>
    /\ reg = EmptyReg
    /\ calls = <<>>
    /\ err = ""

ConIdle ==
    /\ clauses = <<>>
    /\ con_pc = "idle"
    /\ con_i = 0
    /\ con_dep = NoneDepth
    /\ con_ns_set = NoneNs

MergeIdle ==
    /\ ma = Unconstrained
    /\ mb = Unconstrained
    /\ mc = Unconstrained
    /\ mstep = 0
    /\ mres = <<>>

CatIdle ==
    /\ subcats = <<>>
    /\ cat_title = Title(NS_MAIN, "")
    /\ cat_ns = NoneNs
    /\ cat_depth = 0
    /\ cat_pc = "idle"
    /\ ns_clone = NoneNs
    /\ result_has_ns_category = TRUE
    /\ result_has_ns_file = TRUE
    /\ result_set = {}
    /\ visited_cats = {}
    /\ visit_cat_queue = <<>>
    /\ this_cat = Title(NS_MAIN, "")
    /\ this_depth = 0
    /\ requests = {}
    /\ cat_err = ""

\* the WikiAPI functions and the page writers, but the one that is running
ApiIdleBut(running) ==
    /\ running = "backlinks" \/
         /\ bl_title = Title(NS_MAIN, "")
         /\ bl_ns = NoneNs
         /\ bl_level_2 = FALSE
         /\ bl_redirect_strat = "NoRedirect"
         /\ bl_pc = "idle"
         /\ bl_params = <<>>
         /\ bl_res = <<>>
         /\ bl_result = {}
         /\ bl_err = ""
    /\ running = "prefix" \/
         /\ px_title = Title(NS_MAIN, "")
         /\ px_ns = NoneNs
         /\ px_redirect_strat = "NoRedirect"
         /\ px_pc = "idle"
         /\ px_requests = <<>>
         /\ px_result = {}
         /\ px_err = ""
    /\ running = "titles" \/
         /\ js_data = <<>>
         /\ js_include_redirect = FALSE
         /\ js_pc = "idle"
         /\ js_titles = <<>>
    /\ running = "writers" \/
         /\ pw_pc = <<>>
         /\ pw_page = <<>>
         /\ pw_info = <<>>
         /\ pw_body = <<>>
         /\ lock = 0
         /\ in_flight = {}

-----------------------------------------------------------------------------
\* The constraint algebra (parser/src/optim.rs).

MaxClauses == 3      \* longest clause list
MaxDepth == 2        \* depths range over -MaxDepth..MaxDepth

ConNamespaces == {NS_MAIN, NS_TALK}
ConDepths == (-1)..1

\* ast::Constraint: Ns(set) or Depth(n)
NsClause(S) == [kind |-> "Ns", ns |-> S, d |-> 0]
DepthClause(n) == [kind |-> "Depth", ns |-> {}, d |-> n]
Clauses == {NsClause(S) : S \in SUBSET ConNamespaces} \cup {DepthClause(n) : n \in ConDepths}
ClauseLists == UNION {[1..n -> Clauses] : n \in 0..MaxClauses}

\* Result<SetConstraint, SemanticError>
Ok(c) == [ok |-> TRUE, cs |-> c]
ConflictDepth == [ok |-> FALSE, cs |-> Unconstrained]

\* a loop that keeps the last Ns clause instead of intersecting
construct_ns_last(old, n) == SomeNs(n)

\* the Ns arm of the match in construct_constraints_from_vec
construct_ns(old, n) == IF ~old.some THEN SomeNs(n) ELSE SomeNs(old.set \cap n)

\* the Depth arm: the depth kept, and whether the arm returns the error
construct_depth(old, d) == IF ~old.some THEN SomeDepth(d) ELSE old
construct_conflict(old, d) == old.some /\ old.val # d

InitConstruct ==
    /\ clauses \in ClauseLists
    /\ con_pc = "loop"
    /\ con_i = 0
    /\ con_dep = NoneDepth
    /\ con_ns_set = NoneNs
    /\ OptIdle /\ MergeIdle /\ CatIdle /\ ApiIdleBut("")

\* one iteration of `for c in orig`
ConstructStep ==
    /\ con_pc = "loop"
    /\ con_i < Len(clauses)
    /\ LET c == clauses[con_i + 1]
       IN IF c.kind = "Ns"
          THEN /\ con_ns_set' = construct_ns(con_ns_set, c.ns)
               /\ UNCHANGED <<con_dep, con_pc>>
          ELSE /\ con_dep' = construct_depth(con_dep, c.d)
               /\ con_pc' = IF construct_conflict(con_dep, c.d) THEN "conflict" ELSE "loop"
               /\ UNCHANGED con_ns_set
    /\ con_i' = con_i + 1
    /\ UNCHANGED <<clauses, optVars, mergeVars, catVars, apiVars>>

\* `Ok( SetConstraint { ns: con_ns_set, depth: con_dep } )`
ConstructReturn ==
    /\ con_pc = "loop"
    /\ con_i >= Len(clauses)
    /\ con_pc' = "returned"
    /\ UNCHANGED <<clauses, con_i, con_dep, con_ns_set, optVars, mergeVars, catVars, apiVars>>

NextConstruct == ConstructStep \/ ConstructReturn

SpecConstruct == InitConstruct /\ [][NextConstruct]_vars

\* what construct_constraints_from_vec has returned
ConstructResult ==
    IF con_pc = "conflict" THEN ConflictDepth
    ELSE Ok([ns |-> con_ns_set, depth |-> con_dep])

\* ---- merge_constraints
MergeNs ==
    {NoneNs} \cup {SomeNs(S) : S \in SUBSET ConNamespaces}
MergeDepths ==
    {NoneDepth} \cup {SomeDepth(n) : n \in ConDepths}
Constraints == [ns : MergeNs, depth : MergeDepths]

\* a merge that keeps the first namespace set instead of intersecting
merged_ns_first(orig_ns, other_ns) ==
    IF ~orig_ns.some THEN other_ns ELSE orig_ns

merged_ns(orig_ns, other_ns) ==
    IF ~orig_ns.some THEN other_ns
    ELSE IF ~other_ns.some THEN orig_ns
    ELSE SomeNs(orig_ns.set \cap other_ns.set)

\* the depth kept, and whether `return Err(..)` is taken
merged_depth(orig_depth, other_depth) ==
    IF ~orig_depth.some THEN other_depth
    ELSE IF ~other_depth.some THEN orig_depth
    ELSE orig_depth
depth_conflict(orig_depth, other_depth) ==
    orig_depth.some /\ other_depth.some /\ orig_depth.val # other_depth.val

merge_constraints(a, b) ==
    IF depth_conflict(a.depth, b.depth) THEN ConflictDepth
    ELSE Ok([ns |-> merged_ns(a.ns, b.ns), depth |-> merged_depth(a.depth, b.depth)])

\* `merge_constraints(&x?, &y?)`: an operand that is an error is returned as is
merge_results(x, y) ==
    IF ~x.ok \/ ~y.ok THEN ConflictDepth ELSE merge_constraints(x.cs, y.cs)

InitMerge ==
    /\ ma \in Constraints
    /\ mb \in Constraints
    /\ mc \in Constraints
    /\ mstep = 0
    /\ mres = <<>>
    /\ OptIdle /\ ConIdle /\ CatIdle /\ ApiIdleBut("")

\* the merges a caller makes of a, b and c, in this order
MergeOrder == <<"a.b", "b.a", "b.c", "a.(b.c)", "(a.b).c", "a.unconstrained">>

merge_call(k, done) ==
    CASE MergeOrder[k] = "a.b" -> merge_constraints(ma, mb)
      [] MergeOrder[k] = "b.a" -> merge_constraints(mb, ma)
      [] MergeOrder[k] = "b.c" -> merge_constraints(mb, mc)
      [] MergeOrder[k] = "a.(b.c)" -> merge_results(Ok(ma), done[3])
      [] MergeOrder[k] = "(a.b).c" -> merge_results(done[1], Ok(mc))
      [] OTHER -> merge_constraints(ma, Unconstrained)

MergeStep ==
    /\ mstep < Len(MergeOrder)
    /\ mstep' = mstep + 1
    /\ mres' = Append(mres, merge_call(mstep + 1, mres))
    /\ UNCHANGED <<ma, mb, mc, optVars, conVars, catVars, apiVars>>

NextMerge == MergeStep

SpecMerge == InitMerge /\ [][NextMerge]_vars

-----------------------------------------------------------------------------
\* get_category_members_one (solver/src/api.rs): the breadth-first walk of the
\* category graph, one request per category.

Cats == {"X", "Y", "Z"}
CatTitle(c) == Title(NS_CATEGORY, c)
PageP == Title(NS_MAIN, "P")
FileF == Title(NS_FILE, "F")

\* the pages and files each category lists
OtherMembers(c) ==
    CASE c = "X" -> {PageP, FileF}
      [] c = "Y" -> {PageP}
      [] OTHER -> {FileF}

\* the wiki's member list of a category
WikiMembers(t) ==
    IF t.ns = NS_CATEGORY /\ t.text \in Cats
    THEN {CatTitle(c) : c \in subcats[t.text]} \cup OtherMembers(t.text)
    ELSE {}

\* list=categorymembers: cmtype and cmnamespace both restrict the listing
member_type(m) ==
    IF m.ns = NS_CATEGORY THEN "subcat" ELSE IF m.ns = NS_FILE THEN "file" ELSE "page"
categorymembers(req) ==
    {m \in WikiMembers(req.cmtitle) :
        member_type(m) \in req.cmtype /\ m.ns \in req.cmnamespace}

CatNsChoices == {NoneNs} \cup {SomeNs(S) : S \in SUBSET {NS_MAIN, NS_FILE, NS_CATEGORY}}

InitCat ==
    /\ subcats \in [Cats -> SUBSET Cats]
    /\ cat_title \in {CatTitle("X"), PageP}
    /\ cat_ns \in CatNsChoices
    /\ cat_depth \in (0 - MaxDepth)..MaxDepth
    /\ cat_pc = "entry"
    /\ ns_clone = NoneNs
    /\ result_has_ns_category = TRUE
    /\ result_has_ns_file = TRUE
    /\ result_set = {}
    /\ visited_cats = {}
    /\ visit_cat_queue = <<>>
    /\ this_cat = Title(NS_MAIN, "")
    /\ this_depth = 0
    /\ requests = {}
    /\ cat_err = ""
    /\ OptIdle /\ ConIdle /\ MergeIdle /\ ApiIdleBut("")

\* lines 89-95: `ns_list.remove(..)` takes the Category and File namespaces
\* out of the copy and tells whether each was in it; without a list both
\* flags stay true
ns_without(ns, removed) == IF ns.some THEN SomeNs(ns.set \ removed) ELSE NoneNs
ns_had(ns, n) == IF ns.some THEN n \in ns.set ELSE TRUE

\* lines 89-104: the preparation before the loop
CatEnter ==
    /\ cat_pc = "entry"
    /\ ns_clone' = ns_without(cat_ns, {NS_CATEGORY, NS_FILE})
    /\ result_has_ns_category' = ns_had(cat_ns, NS_CATEGORY)
    /\ result_has_ns_file' = ns_had(cat_ns, NS_FILE)
    /\ result_set' = {}
    /\ visited_cats' = {cat_title}
    /\ visit_cat_queue' = <<[title |-> cat_title, level |-> 0]>>
    /\ cat_pc' = "loop"
    /\ UNCHANGED <<subcats, cat_title, cat_ns, cat_depth, this_cat, this_depth,
                   requests, cat_err, optVars, conVars, mergeVars, apiVars>>

\* a descent that goes one level too deep
may_descend_inclusive(depth, level) == depth < 0 \/ level <= depth

\* `depth < 0 || this_depth < depth`
may_descend(depth, level) == depth < 0 \/ level < depth

\* lines 119-136: cmtype and cmnamespace of the request for one category
cmtype_of(clone, has_file, has_category, depth, level) ==
    (IF clone.some THEN {"page"} ELSE {})
    \cup (IF has_file THEN {"file"} ELSE {})
    \cup (IF has_category \/ may_descend(depth, level) THEN {"subcat"} ELSE {})

cmnamespace_of(clone, has_file, has_category, depth, level) ==
    (IF clone.some THEN clone.set ELSE {})
    \cup (IF has_file THEN {NS_FILE} ELSE {})
    \cup (IF has_category \/ may_descend(depth, level) THEN {NS_CATEGORY} ELSE {})

\* lines 114-139: the request for the members of one category
request_of(title, level) ==
    [cmtitle |-> title,
     level |-> level,
     cmtype |-> cmtype_of(ns_clone, result_has_ns_file, result_has_ns_category,
                          cat_depth, level),
     cmnamespace |-> cmnamespace_of(ns_clone, result_has_ns_file,
                          result_has_ns_category, cat_depth, level)]

\* `while let Some((this_cat, this_depth)) = visit_cat_queue.pop_front()` up to
\* the request being sent
CatVisit ==
    /\ cat_pc = "loop"
    /\ visit_cat_queue # <<>>
    /\ LET head == Head(visit_cat_queue)
       IN /\ this_cat' = head.title
          /\ this_depth' = head.level
          /\ visit_cat_queue' = Tail(visit_cat_queue)
          /\ IF head.title.ns # NS_CATEGORY
             THEN /\ cat_pc' = "failed"
                  /\ cat_err' = "NotCategory"
                  /\ UNCHANGED requests
             ELSE /\ cat_pc' = "await"
                  /\ requests' = requests \cup {request_of(head.title, head.level)}
                  /\ UNCHANGED cat_err
    /\ UNCHANGED <<subcats, cat_title, cat_ns, cat_depth, ns_clone,
                   result_has_ns_category, result_has_ns_file, result_set,
                   visited_cats, optVars, conVars, mergeVars, apiVars>>

\* the orders in which a listing can name the titles of a set
Orders(S) ==
    {o \in [1..Cardinality(S) -> S] : \A i, j \in 1..Cardinality(S) : i # j => o[i] # o[j]}

\* the level of the subcategories of a category of level `level`.  The level of
\* a queued category never reaches LevelCap in a wiki of this size; a counter
\* that would pass it stays there, where it still compares above every depth.
LevelCap == MaxDepth + 2
next_level(level) == IF level < LevelCap THEN level + 1 ELSE level

\* a category is queued when it is first seen, so the queue never holds more
\* entries than the wiki has categories
QueueCap == Cardinality(Cats)

\* lines 143-148: the subcategories of the listing that are queued, and the
\* visited set after them
\* a walk that queues a subcategory again, and one that queues every title
unseen_revisits(listing, visited) == {t \in listing : t.ns = NS_CATEGORY}
unseen_any_namespace(listing, visited) == {t \in listing : t \notin visited}

unseen(listing, visited) == {t \in listing : t.ns = NS_CATEGORY /\ t \notin visited}

\* a walk that forgets the subcategories it has queued
mark_visited_none(visited, subs) == visited

mark_visited(visited, subs) == visited \cup subs

\* a walk that keeps the subcategories whatever was asked for
retained_all(listing, has_category) == listing

\* lines 150-152
retained(listing, has_category) ==
    IF has_category THEN listing ELSE {t \in listing : t.ns # NS_CATEGORY}

\* the request returns its listing: lines 140-153
CatResponse ==
    /\ cat_pc = "await"
    /\ LET title_vec == categorymembers(request_of(this_cat, this_depth))
           subs == IF may_descend(cat_depth, this_depth)
                   THEN unseen(title_vec, visited_cats)
                   ELSE {}
       IN /\ \E o \in Orders(subs) :
                visit_cat_queue' = visit_cat_queue \o
                    [i \in 1..Len(o) |-> [title |-> o[i], level |-> next_level(this_depth)]]
          /\ Len(visit_cat_queue') <= QueueCap
          /\ visited_cats' = mark_visited(visited_cats, subs)
          /\ result_set' = result_set \cup retained(title_vec, result_has_ns_category)
    /\ cat_pc' = "loop"
    /\ UNCHANGED <<subcats, cat_title, cat_ns, cat_depth, ns_clone,
                   result_has_ns_category, result_has_ns_file, this_cat, this_depth,
                   requests, cat_err, optVars, conVars, mergeVars, apiVars>>

\* the request returns an error: `?` of lines 138-139
CatApiError ==
    /\ cat_pc = "await"
    /\ cat_pc' = "failed"
    /\ cat_err' = "Transport"
    /\ UNCHANGED <<subcats, cat_title, cat_ns, cat_depth, ns_clone,
                   result_has_ns_category, result_has_ns_file, result_set,
                   visited_cats, visit_cat_queue, this_cat, this_depth, requests,
                   optVars, conVars, mergeVars, apiVars>>

\* the queue is empty: `Ok(result_set)`
CatReturn ==
    /\ cat_pc = "loop"
    /\ visit_cat_queue = <<>>
    /\ cat_pc' = "returned"
    /\ UNCHANGED <<subcats, cat_title, cat_ns, cat_depth, ns_clone,
                   result_has_ns_category, result_has_ns_file, result_set,
                   visited_cats, visit_cat_queue, this_cat, this_depth, requests,
                   cat_err, optVars, conVars, mergeVars, apiVars>>

NextCat == CatEnter \/ CatVisit \/ CatResponse \/ CatApiError \/ CatReturn

SpecCat == InitCat /\ [][NextCat]_vars

\* every request that has been sent returns, and the function runs on
FairSpecCat == SpecCat /\ WF_vars(NextCat)

-----------------------------------------------------------------------------
\* The WikiAPI the solver talks to: a fixed small wiki that answers every
\* request for the same title with the same pages.

WikiBacklinks(t) ==
    CASE t = Title(NS_MAIN, "A") -> {Title(NS_MAIN, "B"), Title(NS_TALK, "A")}
      [] t = Title(NS_TALK, "A") -> {Title(NS_MAIN, "A")}
      [] OTHER -> {}

WikiCategoryMembers(t) ==
    IF t = Title(NS_CATEGORY, "C")
    THEN {Title(NS_MAIN, "A"), Title(NS_FILE, "F")}
    ELSE {}

WikiPrefixIndex(t) == {t, Title(t.ns, "A2")}

NsAdmits(ns, t) == ~ns.some \/ t.ns \in ns.set

\* api::get_backlinks_one(t, api, assert, cs.ns, level_2 = true): the
\* namespace filter is applied to the listing.
get_backlinks_one(t, ns) ==
    [error |-> "", titles |-> {s \in WikiBacklinks(t) : NsAdmits(ns, s)}]

\* api::get_category_members_one on this wiki, whose one category has no
\* subcategory: the walk is the one request for the category itself.
get_category_members_one(t, ns, depth) ==
    IF t.ns # NS_CATEGORY
    THEN [error |-> "NotCategory", titles |-> {}]
    ELSE LET clone == ns_without(ns, {NS_CATEGORY, NS_FILE})
             has_category == ns_had(ns, NS_CATEGORY)
             has_file == ns_had(ns, NS_FILE)
             title_vec ==
                {m \in WikiCategoryMembers(t) :
                    /\ member_type(m) \in cmtype_of(clone, has_file, has_category, depth, 0)
                    /\ m.ns \in cmnamespace_of(clone, has_file, has_category, depth, 0)}
         IN [error |-> "", titles |-> retained(title_vec, has_category)]

\* api::get_prefix_index_one(t, api, assert)
get_prefix_index_one(t) == [error |-> "", titles |-> WikiPrefixIndex(t)]

-----------------------------------------------------------------------------
\* solve_api (solver/src/lib.rs).  The state of one solve is the register file,
\* the WikiAPI calls made so far and the error, "" while there is none.


\* HashMap::insert
reg_insert(r, d, set) == [x \in (DOMAIN r) \cup {d} |-> IF x = d THEN set ELSE r[x]]

\* util::get_set_1 / util::get_set_2: MissingRegister when a register is absent
has_set_1(r, op) == op \in DOMAIN r
has_set_2(r, a, b) == a \in DOMAIN r /\ b \in DOMAIN r

Fail(st, e) == [st EXCEPT !.err = e]
Store(st, d, set) == [st EXCEPT !.reg = reg_insert(st.reg, d, set)]

\* a guard that lets two titles through
MultiplePages_over_two(set) == Cardinality(set) > 2

\* `set.len() > 1` of the LinkTo, InCat and Prefix arms
MultiplePages(set) == Cardinality(set) > 1

\* the LinkTo, InCat and Prefix arms: one request for the single title
single_source(inst, st) ==
    IF ~has_set_1(st.reg, inst.op1) THEN Fail(st, "MissingRegister")
    ELSE LET set == st.reg[inst.op1]
         IN IF set = {} THEN Store(st, inst.dest, {})
            ELSE IF MultiplePages(set) THEN Fail(st, "QueryForMultiplePages")
            ELSE LET t == CHOOSE x \in set : TRUE
                     answer ==
                        CASE inst.kind = "LinkTo" -> get_backlinks_one(t, inst.cs.ns)
                          [] inst.kind = "InCat" ->
                                get_category_members_one(t, inst.cs.ns,
                                    IF inst.cs.depth.some THEN inst.cs.depth.val ELSE 0)
                          [] OTHER -> get_prefix_index_one(t)
                     called == [st EXCEPT !.calls =
                                  Append(@, [dest |-> inst.dest, list |-> inst.kind, title |-> t])]
                 IN IF answer.error # "" THEN Fail(called, answer.error)
                    ELSE Store(called, inst.dest, answer.titles)

\* one iteration of `for inst in query.0.iter()`
exec(inst, st) ==
    CASE inst.kind \in BinaryKinds ->
            IF ~has_set_2(st.reg, inst.op1, inst.op2) THEN Fail(st, "MissingRegister")
            ELSE LET set1 == st.reg[inst.op1]
                     set2 == st.reg[inst.op2]
                 IN Store(st, inst.dest,
                        CASE inst.kind = "And" -> set1 \cap set2
                          [] inst.kind = "Or" -> set1 \cup set2
                          [] inst.kind = "Exclude" -> set1 \ set2
                          [] OTHER -> (set1 \ set2) \cup (set2 \ set1))
      [] inst.kind \in {"LinkTo", "InCat", "Prefix"} -> single_source(inst, st)
      [] inst.kind = "Toggle" ->
            IF ~has_set_1(st.reg, inst.op1) THEN Fail(st, "MissingRegister")
            ELSE Store(st, inst.dest, {toggle_talk(t) : t \in st.reg[inst.op1]})
      [] inst.kind = "Set" ->
            Store(st, inst.dest,
                {t \in {new_from_full(s) : s \in inst.titles} : NsAdmits(inst.cs.ns, t)})
      [] OTHER -> \* Nop
            IF ~has_set_1(st.reg, inst.op1) THEN Fail(st, "MissingRegister")
            ELSE Store(st, inst.dest, st.reg[inst.op1])

\* the end of solve_api: `get_set_1(&reg, &query.1)?`
result_of(st, r) ==
    IF st.err # "" THEN [error |-> st.err, titles |-> {}]
    ELSE IF ~has_set_1(st.reg, r) THEN [error |-> "MissingRegister", titles |-> {}]
    ELSE [error |-> "", titles |-> st.reg[r]]

SolveInit == [reg |-> EmptyReg, calls |-> <<>>, err |-> ""]

\* the instructions from the k-th on, run until one fails
RECURSIVE run_from(_, _, _)
run_from(p, k, st) ==
    IF k > Len(p) \/ st.err # "" THEN st
    ELSE run_from(p, k + 1, exec(p[k], st))

\* solve_api as a function of the query
solve_state(p) == run_from(p, 1, SolveInit)
solve_api(p, r) == result_of(solve_state(p), r)

-----------------------------------------------------------------------------
\* The pipeline: lowering hands over (orig, res); the three passes run in
\* order, one loop iteration per step; the solver runs the vector, one
\* instruction per step.

InitOpt == OptIdle /\ ConIdle /\ MergeIdle /\ CatIdle /\ ApiIdleBut("")

\* the lowering emits the next instruction: its dest is the next register, its
\* operands are registers already defined
Emit ==
    /\ pc = "lowering"
    /\ Len(ir) < MaxLen
    /\ \E inst \in NextInsts(ir) : ir' = Append(ir, inst)
    /\ UNCHANGED <<res, orig, pc, idx, stack, nop_dest, nop_op, deleted, round,
                   out1, reg, calls, err>>
    /\ UNCHANGED <<conVars, mergeVars, catVars, apiVars>>

\* the lowering hands the vector over
Lowered ==
    /\ pc = "lowering"
    /\ Len(ir) >= 1
    /\ orig' = ir
    /\ pc' = "lowered"
    /\ UNCHANGED <<ir, res, idx, stack, nop_dest, nop_op, deleted, round, out1,
                   reg, calls, err>>
    /\ UNCHANGED <<conVars, mergeVars, catVars, apiVars>>

\* the caller starts the pipeline on the vector
Optimize ==
    /\ pc \in {"lowered", "optimized"}
    /\ round < MaxRounds
    /\ round' = round + 1
    /\ out1' = IF round = 1 THEN ir ELSE out1
    /\ pc' = "talk"
    /\ idx' = 0
    /\ UNCHANGED <<ir, res, orig, stack, nop_dest, nop_op, deleted, reg, calls, err>>
    /\ UNCHANGED <<conVars, mergeVars, catVars, apiVars>>

\* ---- remove_redundent_talk: one iteration of `for idx in 0..ir.len()`
talk_rewrite(v, i, idx2) ==
    IF idx2 # NotFound /\ v[idx2].kind = "Toggle"
    THEN LET inst1 == Nop(v[i].dest, v[i].op1)
             inst2 == Nop(v[idx2].dest, v[idx2].op1)
         IN [[v EXCEPT ![i] = inst1] EXCEPT ![idx2] = inst2]
    ELSE v

TalkStep ==
    /\ pc = "talk"
    /\ idx < Len(ir)
    /\ IF ir[idx + 1].kind = "Toggle"
       THEN \E idx2 \in binary_search_by(ir, ir[idx + 1].op1) :
                ir' = talk_rewrite(ir, idx + 1, idx2)
       ELSE ir' = ir
    /\ idx' = idx + 1
    /\ UNCHANGED <<res, orig, pc, stack, nop_dest, nop_op, deleted, round, out1,
                   reg, calls, err>>
    /\ UNCHANGED <<conVars, mergeVars, catVars, apiVars>>

TalkDone ==
    /\ pc = "talk"
    /\ idx >= Len(ir)
    /\ pc' = "empty_ns"
    /\ idx' = 0
    /\ UNCHANGED <<ir, res, orig, stack, nop_dest, nop_op, deleted, round, out1,
                   reg, calls, err>>
    /\ UNCHANGED <<conVars, mergeVars, catVars, apiVars>>

\* ---- remove_empty_ns: the test of one iteration of `for idx in 0..ir.len()`
EmptyNsScan ==
    /\ pc = "empty_ns"
    /\ idx < Len(ir)
    /\ IF ns_empty(ir[idx + 1])
       THEN /\ stack' = <<get_dest(ir[idx + 1])>>
            /\ pc' = "empty_ns_walk"
            /\ idx' = idx
       ELSE /\ idx' = idx + 1
            /\ UNCHANGED <<stack, pc>>
    /\ UNCHANGED <<ir, res, orig, nop_dest, nop_op, deleted, round, out1, reg,
                   calls, err>>
    /\ UNCHANGED <<conVars, mergeVars, catVars, apiVars>>

\* a walk that leaves a Prefix in place
walk_rewrite_keeps_prefix(v, i) ==
    CASE v[i].kind \in UnaryKinds \ {"Prefix"} -> [v EXCEPT ![i] = Nop(v[i].dest, v[i].op1)]
      [] v[i].kind = "Set" -> [v EXCEPT ![i].titles = {}, ![i].cs = Unconstrained]
      [] OTHER -> v

\* the match on the producer found for a popped register
walk_rewrite(v, i) ==
    CASE v[i].kind \in UnaryKinds -> [v EXCEPT ![i] = Nop(v[i].dest, v[i].op1)]
      [] v[i].kind = "Set" -> [v EXCEPT ![i].titles = {}, ![i].cs = Unconstrained]
      [] OTHER -> v

walk_push(st, inst) ==
    CASE inst.kind \in BinaryKinds -> st \o <<inst.op2, inst.op1>>
      [] inst.kind \in UnaryKinds \cup {"Nop"} -> Append(st, inst.op1)
      [] OTHER -> st

\* one iteration of `while let Some(opdest) = stack.pop()`
EmptyNsWalk ==
    /\ pc = "empty_ns_walk"
    /\ stack # <<>>
    /\ LET opdest == stack[Len(stack)]
           rest == SubSeq(stack, 1, Len(stack) - 1)
       IN \E i \in binary_search_by(ir, opdest) :
            IF i # NotFound
            THEN /\ ir' = walk_rewrite(ir, i)
                 /\ stack' = walk_push(rest, ir[i])
            ELSE /\ ir' = ir
                 /\ stack' = rest
    /\ UNCHANGED <<res, orig, pc, idx, nop_dest, nop_op, deleted, round, out1,
                   reg, calls, err>>
    /\ UNCHANGED <<conVars, mergeVars, catVars, apiVars>>

\* the worklist is empty: on to the next idx
EmptyNsWalkDone ==
    /\ pc = "empty_ns_walk"
    /\ stack = <<>>
    /\ pc' = "empty_ns"
    /\ idx' = idx + 1
    /\ UNCHANGED <<ir, res, orig, stack, nop_dest, nop_op, deleted, round, out1,
                   reg, calls, err>>
    /\ UNCHANGED <<conVars, mergeVars, catVars, apiVars>>

EmptyNsDone ==
    /\ pc = "empty_ns"
    /\ idx >= Len(ir)
    /\ pc' = "nop"
    /\ idx' = 0
    /\ UNCHANGED <<ir, res, orig, stack, nop_dest, nop_op, deleted, round, out1,
                   reg, calls, err>>
    /\ UNCHANGED <<conVars, mergeVars, catVars, apiVars>>

\* ---- remove_nop: the test of one iteration of `while idx < ir.len()`
NopScan ==
    /\ pc = "nop"
    /\ idx < Len(ir)
    /\ deleted' = FALSE
    /\ IF ir[idx + 1].kind = "Nop"
       THEN /\ nop_dest' = ir[idx + 1].dest
            /\ nop_op' = ir[idx + 1].op1
            /\ pc' = "nop_search"
            /\ idx' = idx
       ELSE /\ idx' = idx + 1
            /\ UNCHANGED <<nop_dest, nop_op, pc>>
    /\ UNCHANGED <<ir, res, orig, stack, round, out1, reg, calls, err>>
    /\ UNCHANGED <<conVars, mergeVars, catVars, apiVars>>

\* Vec::remove(idx), idx 0-based: panics when idx is out of bounds
vec_remove(v, i) == SubSeq(v, 1, i) \o SubSeq(v, i + 2, Len(v))

\* `ir[idx2].set_dest(dest); ir.remove(idx);`
nop_rewrite(v, idx2, d, i) == vec_remove([v EXCEPT ![idx2] = set_dest(v[idx2], d)], i)

\* one test of `while let Ok(idx2) = ir.binary_search_by(..)` and its body,
\* or the exit of that loop and `if !deleted { idx += 1 }`
NopSearch ==
    /\ pc = "nop_search"
    /\ \E idx2 \in binary_search_by(ir, nop_op) :
        IF idx2 # NotFound
        THEN IF idx < Len(ir)
             THEN /\ ir' = nop_rewrite(ir, idx2, nop_dest, idx)
                  /\ deleted' = TRUE
                  /\ UNCHANGED <<pc, idx>>
             ELSE /\ ir' = [ir EXCEPT ![idx2] = set_dest(ir[idx2], nop_dest)]
                  /\ pc' = "panicked"
                  /\ UNCHANGED <<deleted, idx>>
        ELSE /\ pc' = "nop"
             /\ idx' = IF deleted THEN idx ELSE idx + 1
             /\ UNCHANGED <<ir, deleted>>
    /\ UNCHANGED <<res, orig, stack, nop_dest, nop_op, round, out1, reg, calls, err>>
    /\ UNCHANGED <<conVars, mergeVars, catVars, apiVars>>

NopDone ==
    /\ pc = "nop"
    /\ idx >= Len(ir)
    /\ pc' = "optimized"
    /\ idx' = 0
    /\ UNCHANGED <<ir, res, orig, stack, nop_dest, nop_op, deleted, round, out1,
                   reg, calls, err>>
    /\ UNCHANGED <<conVars, mergeVars, catVars, apiVars>>

\* ---- solve_api on the vector as it stands, optimized or not
SolveStart ==
    /\ pc \in {"lowered", "optimized"}
    /\ round <= 1
    /\ pc' = "solve"
    /\ idx' = 0
    /\ reg' = EmptyReg
    /\ calls' = <<>>
    /\ err' = ""
    /\ UNCHANGED <<ir, res, orig, stack, nop_dest, nop_op, deleted, round, out1>>
    /\ UNCHANGED <<conVars, mergeVars, catVars, apiVars>>

\* one iteration of `for inst in query.0.iter()`
SolveStep ==
    /\ pc = "solve"
    /\ idx < Len(ir)
    /\ LET st == exec(ir[idx + 1], [reg |-> reg, calls |-> calls, err |-> err])
       IN /\ reg' = st.reg
          /\ calls' = st.calls
          /\ err' = st.err
          /\ pc' = IF st.err # "" THEN "failed" ELSE "solve"
    /\ idx' = idx + 1
    /\ UNCHANGED <<ir, res, orig, stack, nop_dest, nop_op, deleted, round, out1>>
    /\ UNCHANGED <<conVars, mergeVars, catVars, apiVars>>

\* `let result = get_set_1(&reg, &query.1)?; Ok(result.clone())`: query.1 is
\* read here for the first time, so the register the query names is drawn here
SolveReturn ==
    /\ pc = "solve"
    /\ idx >= Len(ir)
    /\ \E r \in Dests(orig) :
        LET out == result_of([reg |-> reg, calls |-> calls, err |-> err], r)
        IN /\ res' = r
           /\ err' = out.error
           /\ pc' = IF out.error # "" THEN "failed" ELSE "solved"
    /\ UNCHANGED <<ir, orig, idx, stack, nop_dest, nop_op, deleted, round, out1,
                   reg, calls>>
    /\ UNCHANGED <<conVars, mergeVars, catVars, apiVars>>

NextOpt ==
    \/ Emit \/ Lowered
    \/ Optimize
    \/ TalkStep \/ TalkDone
    \/ EmptyNsScan \/ EmptyNsWalk \/ EmptyNsWalkDone \/ EmptyNsDone
    \/ NopScan \/ NopSearch \/ NopDone
    \/ SolveStart \/ SolveStep \/ SolveReturn

SpecOpt == InitOpt /\ [][NextOpt]_vars

-----------------------------------------------------------------------------
\* The responses of the MediaWiki API as serde_json::Value, and
\* result_array_to_titles_ex (solver/src/api.rs).

\* serde_json::Value: a number or a string (a leaf), an array (elems) or an object
\* (keys, with the value of keys[i] in elems[i])
JLeaf(n, s) == [type |-> "leaf", num |-> n, str |-> s, elems |-> <<>>, keys |-> <<>>]
JArr(items) == [type |-> "array", num |-> 0, str |-> "", elems |-> items, keys |-> <<>>]
JObj(ks, vs) == [type |-> "object", num |-> 0, str |-> "", elems |-> vs, keys |-> ks]

\* Value::get(key).is_some()
json_has(v, k) == v.type = "object" /\ \E i \in DOMAIN v.keys : v.keys[i] = k
\* Value::get(key)
json_get(v, k) == v.elems[CHOOSE i \in DOMAIN v.keys : v.keys[i] = k]

\* Title::new_from_api_result: the title named by the item's "ns" and "title"
new_from_api_result(item) ==
    Title(json_get(item, "ns").num, json_get(item, "title").str)

\* an entry of a list as the API sends it: a redirect carries the marker
\* "redirect", and with blredirect its "redirlinks" (links is <<>> without
\* redirlinks, <<items>> with them)
Item(n, text, redirect, links) ==
    JObj(<<"ns", "title">>
            \o (IF redirect THEN <<"redirect">> ELSE <<>>)
            \o (IF links # <<>> THEN <<"redirlinks">> ELSE <<>>),
         <<JLeaf(n, ""), JLeaf(0, text)>>
            \o (IF redirect THEN <<JLeaf(0, "")>> ELSE <<>>)
            \o (IF links # <<>> THEN <<JArr(links[1])>> ELSE <<>>))

MaxItems == 2        \* longest array of a response
UpTo(S, n) == UNION {[1..k -> S] : k \in 0..n}
\* entries without redirlinks ("A"), entries whose redirlinks hold such entries
\* ("B"), and redirects whose redirlinks hold one of the latter ("C")
Items ==
    LET Items0 == {Item(n, "A", r, <<>>) : n \in {NS_MAIN, NS_TALK}, r \in BOOLEAN}
        Items1 == {Item(NS_MAIN, "B", r, <<a>>) :
                     r \in BOOLEAN, a \in UpTo(Items0, MaxItems)}
        Items2 == {Item(NS_TALK, "C", TRUE, <<(<<i>>)>>) : i \in Items1}
    IN Items0 \cup Items1 \cup Items2
\* a response: the list under "query", beside the members that hold no list
\* (more is <<>>, or <<items>> for a second list)
Response(list, more) ==
    JObj(<<"batchcomplete", "limits", "query">>,
         <<JLeaf(0, ""),
           JObj(<<"backlinks">>, <<JLeaf(250, "")>>),
           JObj(<<"backlinks">> \o (IF more # <<>> THEN <<"pages">> ELSE <<>>),
                <<JArr(list)>> \o (IF more # <<>> THEN <<JArr(more[1])>> ELSE <<>>))>>)
Responses ==
    {Response(list, more) :
        list \in UpTo(Items, MaxItems),
        more \in {<<>>} \cup {<<(<<Item(n, "A", FALSE, <<>>)>>)>> : n \in {NS_MAIN, NS_TALK}}}

\* the redirect item is pushed only `if include_redirect`, any other item always
keep_item_always(item, include_redirect) == TRUE
keep_item(item, include_redirect) ==
    IF json_has(item, "redirect") THEN include_redirect ELSE TRUE

RECURSIVE result_array_to_titles_ex(_, _)
RECURSIVE titles_flat_map(_, _, _)
RECURSIVE titles_for_items(_, _, _)
\* obj.iter().flat_map(|(_k, v)| result_array_to_titles_ex(&v, include_redirect))
titles_flat_map(vals, k, include_redirect) ==
    IF k > Len(vals) THEN <<>>
    ELSE result_array_to_titles_ex(vals[k], include_redirect)
            \o titles_flat_map(vals, k + 1, include_redirect)
\* for item in arr.iter() { ... }
titles_for_items(arr, k, include_redirect) ==
    IF k > Len(arr) THEN <<>>
    ELSE LET item == arr[k]
             subs == IF json_has(item, "redirect") /\ json_has(item, "redirlinks")
                     THEN result_array_to_titles_ex(json_get(item, "redirlinks"),
                                                    include_redirect)
                     ELSE <<>>
             own == IF keep_item(item, include_redirect)
                    THEN <<new_from_api_result(item)>> ELSE <<>>
         IN subs \o own \o titles_for_items(arr, k + 1, include_redirect)
result_array_to_titles_ex(data, include_redirect) ==
    IF data.type = "object" THEN titles_flat_map(data.elems, 1, include_redirect)
    ELSE IF data.type = "array" THEN titles_for_items(data.elems, 1, include_redirect)
    ELSE <<>>

InitTitles ==
    /\ js_data \in Responses
    /\ js_include_redirect \in BOOLEAN
    /\ js_pc = "call"
    /\ js_titles = <<>>
    /\ OptIdle /\ ConIdle /\ MergeIdle /\ CatIdle /\ ApiIdleBut("titles")

TitlesCall ==
    /\ js_pc = "call"
    /\ js_titles' = result_array_to_titles_ex(js_data, js_include_redirect)
    /\ js_pc' = "returned"
    /\ UNCHANGED <<js_data, js_include_redirect>>
    /\ UNCHANGED <<optVars, conVars, mergeVars, catVars, blVars, pxVars, pwVars>>

SpecTitles == InitTitles /\ [][TitlesCall]_vars

-----------------------------------------------------------------------------
\* get_backlinks_one (solver/src/api.rs).

InitBacklinks ==
    \* the second title is in a namespace the site does not have
    /\ bl_title \in {Title(NS_MAIN, "A"), Title(NS_TALK + 1, "A")}
    /\ bl_ns \in {NoneNs} \cup {SomeNs(S) : S \in SUBSET {NS_MAIN, NS_TALK}}
    /\ bl_level_2 \in BOOLEAN
    /\ bl_redirect_strat \in {"NoRedirect", "OnlyRedirect", "All"}
    /\ bl_pc = "call"
    /\ bl_params = <<>>
    /\ bl_res = <<>>
    /\ bl_result = {}
    /\ bl_err = ""
    /\ OptIdle /\ ConIdle /\ MergeIdle /\ CatIdle /\ ApiIdleBut("backlinks")

\* from the entry to the request: the early return, or the parameters
BacklinksRequest ==
    /\ bl_pc = "call"
    /\ LET elem_name_is_none == bl_title.ns \notin {NS_MAIN, NS_TALK, NS_FILE, NS_CATEGORY}
           params == [list |-> "backlinks", bltitle |-> bl_title, bllimit |-> "max",
                      blfilterredir |-> bl_redirect_strat]
       IN IF elem_name_is_none
          THEN bl_pc' = "returned" /\ bl_params' = bl_params
          ELSE /\ bl_pc' = "requested"
               /\ IF bl_level_2
                  THEN bl_params' = params @@ ("blredirect" :> "1")
                  ELSE IF bl_ns.some
                       \* concat_params names the namespaces in the set's order
                       THEN \E o \in Orders(bl_ns.set) :
                                bl_params' = params @@ ("blnamespace" :> o)
                       ELSE bl_params' = params
    /\ UNCHANGED <<bl_title, bl_ns, bl_level_2, bl_redirect_strat, bl_res, bl_result,
                   bl_err>>
    /\ UNCHANGED <<optVars, conVars, mergeVars, catVars, pxVars, jsVars, pwVars>>

\* title_vec.retain(|title| ns_list.contains(&title.namespace_id())) under its guards
ns_retain_never(title_vec, ns, level_2) == title_vec
ns_retain(title_vec, ns, level_2) ==
    IF level_2 /\ ns.some
    THEN SelectSeq(title_vec, LAMBDA t : t.ns \in ns.set)
    ELSE title_vec

\* the response of the wiki, up to the return
BacklinksResponse ==
    /\ bl_pc = "requested"
    /\ \E list \in UpTo(Items, 1), more \in {<<>>, <<(<<Item(NS_TALK, "A", FALSE, <<>>)>>)>>} :
          /\ bl_res' = Response(list, more)
          /\ LET result_should_have_redirect == bl_redirect_strat # "NoRedirect"
                 title_vec == ns_retain(result_array_to_titles_ex(bl_res',
                                            result_should_have_redirect),
                                        bl_ns, bl_level_2)
             IN bl_result' = {title_vec[k] : k \in DOMAIN title_vec}
    /\ bl_pc' = "returned"
    /\ UNCHANGED <<bl_title, bl_ns, bl_level_2, bl_redirect_strat, bl_params, bl_err>>
    /\ UNCHANGED <<optVars, conVars, mergeVars, catVars, pxVars, jsVars, pwVars>>

\* the `?` after get_query_api_json_all and after detect_api_failure
BacklinksFail ==
    /\ bl_pc = "requested"
    /\ bl_err' = "ApiError"
    /\ bl_pc' = "returned"
    /\ UNCHANGED <<bl_title, bl_ns, bl_level_2, bl_redirect_strat, bl_params, bl_res,
                   bl_result>>
    /\ UNCHANGED <<optVars, conVars, mergeVars, catVars, pxVars, jsVars, pwVars>>

NextBacklinks == BacklinksRequest \/ BacklinksResponse \/ BacklinksFail
SpecBacklinks == InitBacklinks /\ [][NextBacklinks]_vars

-----------------------------------------------------------------------------
\* get_prefix_index_one (solver/src/api.rs).

InitPrefix ==
    /\ px_title \in {Title(NS_MAIN, "A"), Title(NS_TALK, "A")}
    /\ px_ns \in {NoneNs} \cup {SomeNs(S) : S \in SUBSET {NS_MAIN, NS_TALK}}
    /\ px_redirect_strat \in {"NoRedirect", "OnlyRedirect", "All"}
    /\ px_pc = "call"
    /\ px_requests = <<>>
    /\ px_result = {}
    /\ px_err = ""
    /\ OptIdle /\ ConIdle /\ MergeIdle /\ CatIdle /\ ApiIdleBut("prefix")

\* if let Some(ns_list) = ns { if !ns_list.contains(&title_ns_id) { .. } }
ns_excludes_never(ns, title_ns_id) == FALSE
ns_excludes(ns, title_ns_id) == ns.some /\ title_ns_id \notin ns.set

\* from the entry to the request: the early return, or the parameters
PrefixRequest ==
    /\ px_pc = "call"
    /\ LET title_ns_id == px_title.ns
       IN IF ns_excludes(px_ns, title_ns_id)
          THEN px_pc' = "returned" /\ px_requests' = px_requests
          ELSE /\ px_pc' = "requested"
               /\ px_requests' = Append(px_requests,
                                    [list |-> "allpages", apprefix |-> px_title.text,
                                     apnamespace |-> title_ns_id, aplimit |-> "max",
                                     apfilterredir |-> px_redirect_strat])
    /\ UNCHANGED <<px_title, px_ns, px_redirect_strat, px_result, px_err>>
    /\ UNCHANGED <<optVars, conVars, mergeVars, catVars, blVars, jsVars, pwVars>>

\* the response of the wiki (a list of pages of the namespace asked for), up
\* to the return
PrefixResponse ==
    /\ px_pc = "requested"
    /\ \E list \in UpTo({Item(px_title.ns, text, r, <<>>) :
                            text \in {"A", "A2"}, r \in BOOLEAN}, MaxItems) :
          px_result' = {new_from_api_result(list[k]) : k \in DOMAIN list}
    /\ px_pc' = "returned"
    /\ UNCHANGED <<px_title, px_ns, px_redirect_strat, px_requests, px_err>>
    /\ UNCHANGED <<optVars, conVars, mergeVars, catVars, blVars, jsVars, pwVars>>

\* the `?` after get_query_api_json_all and after detect_api_failure
PrefixFail ==
    /\ px_pc = "requested"
    /\ px_err' = "ApiError"
    /\ px_pc' = "returned"
    /\ UNCHANGED <<px_title, px_ns, px_redirect_strat, px_requests, px_result>>
    /\ UNCHANGED <<optVars, conVars, mergeVars, catVars, blVars, jsVars, pwVars>>

NextPrefix == PrefixRequest \/ PrefixResponse \/ PrefixFail
SpecPrefix == InitPrefix /\ [][NextPrefix]_vars

-----------------------------------------------------------------------------
\* The page writers (src/routine/pagewriter.rs): PageWriter::start and
\* write_by_output_format, run by several routines over the one API_SERVICE.

NumWriters == 2      \* page writers running concurrently
MaxPages == 2        \* output formats (target pages) of each page writer
Writers == 1..NumWriters

\* where a routine stands: `at` is "lock", "drop", "send" or "wait" around
\* the request `req` ("info", "revisions", "edit"), or "execute", or "done"
At(at, req) == [at |-> at, req |-> req]
NoInfo == [result |-> "", missing |-> FALSE, redirect |-> FALSE, ns |-> NS_MAIN]

\* self.denied_namespace of each page writer
denied_namespace(w) == IF w = 1 THEN NoneNs ELSE SomeNs({NS_TALK})

InitWriters ==
    /\ pw_pc = [w \in Writers |-> At("lock", "info")]
    /\ pw_page = [w \in Writers |-> 1]
    /\ pw_info = [w \in Writers |-> NoInfo]
    /\ pw_body = [w \in Writers |-> ""]
    /\ lock = 0
    /\ in_flight = {}
    /\ OptIdle /\ ConIdle /\ MergeIdle /\ CatIdle /\ ApiIdleBut("writers")

\* API_SERVICE.get_lock().lock().await: the routine waits for the mutex and
\* takes it
Lock(w) ==
    /\ pw_pc[w].at = "lock"
    /\ lock = 0
    /\ lock' = w
    /\ pw_pc' = [pw_pc EXCEPT ![w].at = "drop"]
    /\ UNCHANGED <<pw_page, pw_info, pw_body, in_flight>>
    /\ UNCHANGED <<optVars, conVars, mergeVars, catVars, blVars, pxVars, jsVars>>

\* the `;` that ends the statement: the guard is a temporary and is dropped
GuardDrop(w) ==
    /\ pw_pc[w].at = "drop"
    /\ lock' = 0
    /\ pw_pc' = [pw_pc EXCEPT ![w].at = "send"]
    /\ UNCHANGED <<pw_page, pw_info, pw_body, in_flight>>
    /\ UNCHANGED <<optVars, conVars, mergeVars, catVars, blVars, pxVars, jsVars>>

\* API_SERVICE.get(&params) / API_SERVICE.post_edit(&params): the request leaves
Send(w) ==
    /\ pw_pc[w].at = "send"
    /\ in_flight' = in_flight \cup {[writer |-> w, kind |-> pw_pc[w].req]}
    /\ pw_pc' = [pw_pc EXCEPT ![w].at = "wait"]
    /\ UNCHANGED <<pw_page, pw_info, pw_body, lock>>
    /\ UNCHANGED <<optVars, conVars, mergeVars, catVars, blVars, pxVars, jsVars>>

\* the end of write_by_output_format, and the `for` loop of start
next_page(w) ==
    /\ pw_page' = [pw_page EXCEPT ![w] = @ + 1]
    /\ pw_pc' = [pw_pc EXCEPT ![w] = IF pw_page[w] < MaxPages THEN At("lock", "info")
                                     ELSE At("done", "")]

\* the tests on page_query that end write_by_output_format before the query:
\* is_err, "missing", "redirect", deny_ns.contains(ns)
skip_page_unless_denied(page_query, deny_ns) ==
    page_query.result = "Err" \/ page_query.missing \/ page_query.redirect
skip_page(page_query, deny_ns) ==
    IF page_query.result = "Err" THEN TRUE
    ELSE IF page_query.missing THEN TRUE
    ELSE IF page_query.redirect THEN TRUE
    ELSE page_query.ns \in deny_ns

\* .await of the page-info get, and the tests on its result
ReceiveInfo(w) ==
    /\ pw_pc[w] = At("wait", "info")
    /\ in_flight' = in_flight \ {[writer |-> w, kind |-> "info"]}
    /\ \E page_query \in
            {[NoInfo EXCEPT !.result = "Err"]}
            \cup [result : {"Ok"}, missing : BOOLEAN, redirect : BOOLEAN,
                  ns : {NS_MAIN, NS_TALK}] :
          /\ pw_info' = [pw_info EXCEPT ![w] = page_query]
          /\ LET deny_ns == IF denied_namespace(w).some
                             THEN denied_namespace(w).set ELSE {}
             IN IF skip_page(page_query, deny_ns) THEN next_page(w)
                ELSE /\ pw_pc' = [pw_pc EXCEPT ![w] = At("execute", "")]
                     /\ pw_page' = pw_page
    /\ pw_body' = [pw_body EXCEPT ![w] = ""]
    /\ UNCHANGED lock
    /\ UNCHANGED <<optVars, conVars, mergeVars, catVars, blVars, pxVars, jsVars>>

\* executor.execute().await and the local `body`
Execute(w) ==
    /\ pw_pc[w].at = "execute"
    /\ \E result \in {"Ok", "Err"}, eager_mode \in BOOLEAN :
          LET body == IF result = "Ok" THEN "Ok"
                      ELSE IF eager_mode THEN "Ok" ELSE "Err"
          IN /\ pw_body' = [pw_body EXCEPT ![w] = body]
             /\ pw_pc' = [pw_pc EXCEPT ![w] = IF body = "Ok" THEN At("lock", "edit")
                                              ELSE At("lock", "revisions")]
    /\ UNCHANGED <<pw_page, pw_info, lock, in_flight>>
    /\ UNCHANGED <<optVars, conVars, mergeVars, catVars, blVars, pxVars, jsVars>>

\* .await of the revisions get: the original content, or the edit is cancelled
ReceiveRevisions(w) ==
    /\ pw_pc[w] = At("wait", "revisions")
    /\ in_flight' = in_flight \ {[writer |-> w, kind |-> "revisions"]}
    /\ \E orig_content \in {"Ok", "Err"} :
          IF orig_content = "Ok"
          THEN pw_pc' = [pw_pc EXCEPT ![w] = At("lock", "edit")] /\ pw_page' = pw_page
          ELSE next_page(w)
    /\ UNCHANGED <<pw_info, pw_body, lock>>
    /\ UNCHANGED <<optVars, conVars, mergeVars, catVars, blVars, pxVars, jsVars>>

\* .await of the edit post
ReceiveEdit(w) ==
    /\ pw_pc[w] = At("wait", "edit")
    /\ in_flight' = in_flight \ {[writer |-> w, kind |-> "edit"]}
    /\ next_page(w)
    /\ UNCHANGED <<pw_info, pw_body, lock>>
    /\ UNCHANGED <<optVars, conVars, mergeVars, catVars, blVars, pxVars, jsVars>>

NextWriters ==
    \E w \in Writers :
        \/ Lock(w) \/ GuardDrop(w) \/ Send(w)
        \/ ReceiveInfo(w) \/ Execute(w) \/ ReceiveRevisions(w) \/ ReceiveEdit(w)
SpecWriters == InitWriters /\ [][NextWriters]_vars

-----------------------------------------------------------------------------
\* Properties of the optimizer and of the solver.

\* the moments between the passes of the first run of the pipeline
AfterTalk == round = 1 /\ pc = "empty_ns" /\ idx = 0
AfterEmptyNs == round = 1 /\ pc = "nop" /\ idx = 0
AfterNop == round = 1 /\ pc = "optimized"

\* the register of the last instruction the lowering emitted: the whole query
Root(p) == p[Len(p)].dest

\* the registers an instruction reads
Operands(inst) ==
    CASE inst.kind \in BinaryKinds -> {inst.op1, inst.op2}
      [] inst.kind = "Set" -> {}
      [] OTHER -> {inst.op1}

\* C1: the solver's outcome, title set or error, on the optimized vector is its
\* outcome on the vector the lowering handed over, for the same result register.
C1_OptimizerPreservesOutcome ==
    AfterNop => solve_api(ir, Root(orig)) = solve_api(orig, Root(orig))

\* the registers read by the instructions a pass has left as they were
ReadByUntouched == UNION {Operands(ir[i]) : i \in {j \in DOMAIN ir : ir[j] = orig[j]}}

\* C2: after remove_redundent_talk alone, every register still read by an
\* instruction the pass did not rewrite, and the result register, holds what it
\* held before the pass.
C2_TalkPassPreservesRegisters ==
    AfterTalk =>
        \A r \in ReadByUntouched \cup {Root(orig)} :
            solve_api(ir, r) = solve_api(orig, r)

\* the registers of the producers reachable from the k-th instruction through
\* operands
RECURSIVE SubtreeFrom(_, _, _)
SubtreeFrom(p, k, S) ==
    IF k = 0 THEN S
    ELSE SubtreeFrom(p, k - 1, IF p[k].dest \in S THEN S \cup Operands(p[k]) ELSE S)
Subtree(p, i) == SubtreeFrom(p, i, {p[i].dest})

\* C3: after remove_empty_ns, in the subtree of an instruction whose namespace
\* set is empty no LinkTo, InCat, Toggle or Prefix is left (each is a Nop with
\* its dest and op), every Set has no titles and no constraint, and the solver
\* makes no WikiAPI call for a register of the subtree.
C3_EmptyNsAnnihilation ==
    AfterEmptyNs =>
        \A i \in DOMAIN orig :
            ns_empty(orig[i]) =>
                LET T == Subtree(orig, i)
                    made == solve_state(ir).calls
                IN /\ \A j \in DOMAIN ir :
                        ir[j].dest \in T =>
                            /\ ir[j].kind \notin UnaryKinds
                            /\ orig[j].kind \in UnaryKinds =>
                                    ir[j] = Nop(orig[j].dest, orig[j].op1)
                            /\ ir[j].kind = "Set" =>
                                    ir[j].titles = {} /\ ir[j].cs = Unconstrained
                   /\ \A c \in DOMAIN made : made[c].dest \notin T

\* a LinkTo with the empty namespace set over a union: its subtree holds a
\* Prefix or InCat and a Set that had titles
C3_Witness ==
    /\ AfterEmptyNs
    /\ \E i \in DOMAIN orig :
        /\ orig[i].kind = "LinkTo" /\ ns_empty(orig[i])
        /\ \E j, k, l \in DOMAIN orig :
            /\ {orig[j].dest, orig[k].dest, orig[l].dest} \subseteq Subtree(orig, i)
            /\ orig[j].kind \in {"Prefix", "InCat"}
            /\ orig[k].kind \in BinaryKinds
            /\ orig[l].kind = "Set" /\ orig[l].titles # {}
            /\ ir[j].kind = "Nop" /\ ir[l].titles = {}

\* p and q are the same vector but for the names of the registers
SameUpToRenaming(p, q) ==
    /\ Len(p) = Len(q)
    /\ \A i \in DOMAIN p :
        /\ i \in DOMAIN q
        /\ p[i].kind = q[i].kind /\ p[i].titles = q[i].titles /\ p[i].cs = q[i].cs
    /\ \A i, j \in DOMAIN p :
        /\ i \in DOMAIN q /\ j \in DOMAIN q
        /\ (p[i].dest = p[j].dest) <=> (q[i].dest = q[j].dest)
        /\ (p[i].op1 = p[j].dest) <=> (q[i].op1 = q[j].dest)
        /\ (p[i].op2 = p[j].dest) <=> (q[i].op2 = q[j].dest)

\* C4: the pipeline run on its own output returns that output, up to the names
\* of the registers.
C4_OptimizerIdempotent ==
    (round = 2 /\ pc = "optimized") => SameUpToRenaming(ir, out1)

\* C5: when remove_nop has returned, the vector holds no Nop.
C5_NoNopAfterRemoveNop ==
    AfterNop => \A i \in DOMAIN ir : ir[i].kind # "Nop"

\* C6: from a vector strictly ordered by dest, the vector is strictly ordered by
\* dest whenever a pass is about to search it and when each pass has returned.
C6_PassesKeepDestOrder ==
    (round = 1 /\ pc \in {"talk", "empty_ns", "empty_ns_walk", "nop", "nop_search",
                          "optimized"})
        => OrderedByDest(ir)

\* C7: a LinkTo, InCat or Prefix whose operand holds two titles or more makes
\* the solve fail with QueryForMultiplePages without a WikiAPI call and without
\* a register written, and a solve that failed so returns no title set.
C7_SingleSourceGuard ==
    /\ [][(/\ pc = "solve"
           /\ idx < Len(ir)
           /\ ir[idx + 1].kind \in {"LinkTo", "InCat", "Prefix"}
           /\ has_set_1(reg, ir[idx + 1].op1)
           /\ Cardinality(reg[ir[idx + 1].op1]) >= 2)
          => (/\ pc' = "failed"
              /\ err' = "QueryForMultiplePages"
              /\ calls' = calls
              /\ reg' = reg)]_vars
    /\ [](err = "QueryForMultiplePages" => pc = "failed")

\* an InCat has just been refused on an operand of two titles, after an
\* earlier instruction of the same solve made a call
C7_Witness ==
    /\ pc = "failed"
    /\ err = "QueryForMultiplePages"
    /\ ir[idx].kind = "InCat"
    /\ Cardinality(reg[ir[idx].op1]) = 2
    /\ calls # <<>>

-----------------------------------------------------------------------------
\* Properties of the constraint algebra.

merge_result(label) == mres[CHOOSE k \in DOMAIN MergeOrder : MergeOrder[k] = label]

\* C8: merge_constraints is commutative, associative (the two groupings give the
\* same constraint or both give the conflict-depth error) and has the
\* unconstrained constraint as its identity.
C8_MergeIsMeetWithIdentity ==
    mstep = Len(MergeOrder) =>
        /\ merge_result("a.b") = merge_result("b.a")
        /\ merge_result("a.(b.c)") = merge_result("(a.b).c")
        /\ merge_result("a.unconstrained") = Ok(ma)

\* three constrained operands whose namespace sets differ and whose depths
\* agree, and three whose depths make both groupings fail
C8_Witness ==
    /\ mstep = Len(MergeOrder)
    /\ ma.ns.some /\ mb.ns.some /\ mc.ns.some
    /\ ma.ns.set # mb.ns.set /\ mb.ns.set # mc.ns.set
    /\ ma.depth.some /\ ~mb.depth.some /\ mc.depth.some
    /\ ma.depth.val # mc.depth.val
    /\ ~merge_result("a.(b.c)").ok /\ ~merge_result("(a.b).c").ok
    /\ merge_result("a.b").ok

NsSets(l) == {l[i].ns : i \in {j \in DOMAIN l : l[j].kind = "Ns"}}
DepthVals(l) == {l[i].d : i \in {j \in DOMAIN l : l[j].kind = "Depth"}}
Intersection(SS) == {x \in UNION SS : \A S \in SS : x \in S}

\* C9: construct_constraints_from_vec fails exactly when two Depth clauses of
\* the list differ; otherwise its ns is None exactly when the list has no Ns
\* clause and else the intersection of the Ns clauses, and its depth is the
\* common Depth value, None without a Depth clause.
C9_ConstructFromVec ==
    con_pc \in {"returned", "conflict"} =>
        /\ (con_pc = "conflict") <=> (Cardinality(DepthVals(clauses)) >= 2)
        /\ con_pc = "returned" =>
              /\ ConstructResult.ok
              /\ ConstructResult.cs.ns =
                    IF NsSets(clauses) = {} THEN NoneNs
                    ELSE SomeNs(Intersection(NsSets(clauses)))
              /\ ConstructResult.cs.depth =
                    IF DepthVals(clauses) = {} THEN NoneDepth
                    ELSE SomeDepth(CHOOSE d \in DepthVals(clauses) : TRUE)

\* two Ns clauses with an empty intersection around a Depth clause
C9_Witness ==
    /\ con_pc = "returned"
    /\ Len(clauses) = 3
    /\ clauses[1].kind = "Ns" /\ clauses[2].kind = "Depth" /\ clauses[3].kind = "Ns"
    /\ clauses[1].ns # {} /\ clauses[3].ns # {}
    /\ con_ns_set = SomeNs({})
    /\ con_dep = SomeDepth(clauses[2].d)

-----------------------------------------------------------------------------
\* Properties of the category walk.

\* C10: whatever the subcategory graph (cycles and self-loops included) and
\* whatever the depth, get_category_members_one returns once every request it
\* sends has returned; when no request failed, it returns with an empty queue.
C10_CategoryWalkTerminates ==
    <>(\/ cat_pc = "failed"
       \/ cat_pc = "returned" /\ visit_cat_queue = <<>>)

\* an unbounded walk has returned from a graph in which X and Y contain each
\* other and Z contains itself
C10_Witness ==
    /\ cat_pc = "returned"
    /\ cat_depth < 0
    /\ "Y" \in subcats["X"] /\ "X" \in subcats["Y"]
    /\ "Z" \in subcats["Y"] /\ "Z" \in subcats["Z"]
    /\ visited_cats = {CatTitle(c) : c \in Cats}
    /\ Cardinality(requests) = Cardinality(Cats)

\* the categories within d subcategory steps of the categories S
RECURSIVE Within(_, _)
Within(S, d) ==
    IF d = 0 THEN S ELSE Within(S \cup UNION {subcats[c] : c \in S}, d - 1)
Reachable(c) == Within({c}, Cardinality(Cats))

\* the titles get_category_members_one has asked the members of, and queued
Queried == {r.cmtitle : r \in requests}
Queued == {visit_cat_queue[i].title : i \in DOMAIN visit_cat_queue}

\* C11: in one call no category is queued twice or queried twice, and a call
\* with a negative depth that returns has queried every category reachable
\* from the root, each once.
C11_EachCategoryOnce ==
    /\ [][cat_pc' = "await" => this_cat' \notin Queried]_vars
    /\ [](/\ \A i, j \in DOMAIN visit_cat_queue :
                i # j => visit_cat_queue[i].title # visit_cat_queue[j].title
          /\ Queued \cap Queried = {}
          /\ (cat_pc = "returned" /\ cat_depth < 0) =>
                Queried = {CatTitle(c) : c \in Reachable(cat_title.text)})

\* X and Y contain each other, Z is out of reach: X and Y have been queried
C11_Witness ==
    /\ cat_pc = "returned"
    /\ cat_depth < 0
    /\ subcats["X"] = {"Y"} /\ subcats["Y"] = {"X", "Y"}
    /\ Queried = {CatTitle("X"), CatTitle("Y")}
    /\ visited_cats = Queried

\* C12: with a namespace filter that leaves the Category namespace out, the
\* result holds no Category title, at any moment of the walk; without a filter
\* or with Category in it, the returned set holds every subcategory of every
\* category queried.
C12_ResultCategoriesAsRequested ==
    /\ (cat_ns.some /\ NS_CATEGORY \notin cat_ns.set) =>
            \A t \in result_set : t.ns # NS_CATEGORY
    /\ (cat_pc = "returned" /\ (~cat_ns.some \/ NS_CATEGORY \in cat_ns.set)) =>
            \A q \in Queried : \A c \in subcats[q.text] : CatTitle(c) \in result_set

\* a walk below the root under a filter without Category has returned its pages
C12_Witness ==
    /\ cat_pc = "returned"
    /\ cat_ns = SomeNs({NS_MAIN})
    /\ subcats["X"] = {"Y"}
    /\ Queried = {CatTitle("X"), CatTitle("Y")}
    /\ result_set = {PageP}

\* C13: a request asks for members of type `page` exactly when the namespace
\* filter is absent or names a namespace other than File and Category.
C13_PageTypeRequested ==
    \A r \in requests :
        ("page" \in r.cmtype) <=>
            (~cat_ns.some \/ cat_ns.set \ {NS_FILE, NS_CATEGORY} # {})

\* C19: a call of depth d >= 0 that returns has queried the categories within d
\* subcategory steps of the root and no other; a call of negative depth has
\* queried the categories reachable from the root and returns what depth -1
\* returns, whatever the order of the listings.
C19_DepthBoundsTheWalk ==
    cat_pc = "returned" =>
        /\ cat_depth >= 0 =>
                Queried = {CatTitle(c) : c \in Within({cat_title.text}, cat_depth)}
        /\ cat_depth < 0 =>
                /\ Queried = {CatTitle(c) : c \in Reachable(cat_title.text)}
                /\ result_set =
                     UNION {retained(
                              {m \in WikiMembers(CatTitle(c)) :
                                 /\ member_type(m) \in cmtype_of(ns_clone,
                                        result_has_ns_file, result_has_ns_category,
                                        0 - 1, 0)
                                 /\ m.ns \in cmnamespace_of(ns_clone,
                                        result_has_ns_file, result_has_ns_category,
                                        0 - 1, 0)},
                              result_has_ns_category) :
                            c \in Reachable(cat_title.text)}

\* depth 1 on the chain X, Y, Z: the walk stopped at Y
C19_Witness ==
    /\ cat_pc = "returned"
    /\ cat_depth = 1
    /\ subcats["X"] = {"Y"} /\ subcats["Y"] = {"Z"}
    /\ Queried = {CatTitle("X"), CatTitle("Y")}

\* C20: a dequeued title outside the Category namespace ends the call with
\* NotCategory and without a request for it; only the root can be such a
\* title, so the error comes before any request and a call on such a root
\* never returns a set.
C20_NotCategoryOnlyForRoot ==
    /\ [][(/\ cat_pc = "loop"
           /\ visit_cat_queue # <<>>
           /\ Head(visit_cat_queue).title.ns # NS_CATEGORY)
          => (cat_pc' = "failed" /\ cat_err' = "NotCategory" /\ requests' = requests)]_vars
    /\ [](/\ cat_err = "NotCategory" => (cat_title.ns # NS_CATEGORY /\ requests = {})
          /\ \A t \in Queued : t.ns = NS_CATEGORY \/ t = cat_title
          /\ (cat_title.ns # NS_CATEGORY /\ cat_pc \in {"await", "returned", "failed"})
                => cat_err = "NotCategory")

\* the call on the page P has failed
C20_Witness ==
    /\ cat_pc = "failed"
    /\ cat_err = "NotCategory"
    /\ cat_title = PageP
    /\ this_cat = PageP
    /\ requests = {}

-----------------------------------------------------------------------------
\* Properties of the WikiAPI functions.

RECURSIVE Concat(_)
Concat(ss) == IF ss = <<>> THEN <<>> ELSE Head(ss) \o Concat(Tail(ss))
IsRedirect(item) == json_has(item, "redirect")
\* the arrays under a value, through objects only
RECURSIVE ArraysUnder(_)
ArraysUnder(v) ==
    IF v.type = "array" THEN <<v.elems>>
    ELSE IF v.type = "object" THEN Concat([i \in DOMAIN v.elems |-> ArraysUnder(v.elems[i])])
    ELSE <<>>
\* the items of an array and, at any depth, those under the redirlinks of its redirects
RECURSIVE ReachedFrom(_)
ReachedFrom(arr) ==
    Concat([i \in DOMAIN arr |->
              <<arr[i]>> \o (IF IsRedirect(arr[i]) /\ json_has(arr[i], "redirlinks")
                             THEN ReachedFrom(json_get(arr[i], "redirlinks").elems)
                             ELSE <<>>)])
Reached(data) == Concat([i \in DOMAIN ArraysUnder(data) |-> ReachedFrom(ArraysUnder(data)[i])])
Count(s, t) == Cardinality({i \in DOMAIN s : s[i] = t})

\* C16: result_array_to_titles_ex returns one title for every non-redirect item
\* it reaches and, only when include_redirect is set, one for every redirect
\* item it reaches; the reached items are those of every array under the root
\* object and, at any depth, those under the redirlinks of reached redirects.
C16_TitlesOfReachedItems ==
    js_pc = "returned" =>
        LET r == Reached(js_data)
            kept == {i \in DOMAIN r : ~IsRedirect(r[i]) \/ js_include_redirect}
        IN /\ Len(js_titles) = Cardinality(kept)
           /\ \A i \in DOMAIN r :
                Count(js_titles, new_from_api_result(r[i]))
                    = Cardinality({j \in kept : new_from_api_result(r[j])
                                                    = new_from_api_result(r[i])})
           /\ \A k \in DOMAIN js_titles :
                \E i \in kept : js_titles[k] = new_from_api_result(r[i])
C16_Witness ==
    /\ js_pc = "returned"
    /\ ~js_include_redirect
    /\ \E i \in DOMAIN Reached(js_data) :
            /\ IsRedirect(Reached(js_data)[i])
            /\ new_from_api_result(Reached(js_data)[i]) = Title(NS_TALK, "C")
    /\ Title(NS_TALK, "A") \in {js_titles[k] : k \in DOMAIN js_titles}
    /\ Len(js_titles) < Len(Reached(js_data))

Sent(params, key) == key \in DOMAIN params
\* C14: in get_backlinks_one with level_2 the request carries blredirect and no
\* blnamespace, and the namespace filter is applied locally to every returned
\* title, those found under nested redirlinks included; without level_2 the
\* request carries the namespace filter as blnamespace and no blredirect.
C14_BacklinksNamespaceFilter ==
    bl_pc \in {"requested", "returned"} /\ bl_params # <<>> =>
        /\ bl_level_2 =>
             /\ ~Sent(bl_params, "blnamespace")
             /\ Sent(bl_params, "blredirect")
             /\ bl_ns.some => \A t \in bl_result : t.ns \in bl_ns.set
        /\ ~bl_level_2 =>
             /\ ~Sent(bl_params, "blredirect")
             /\ Sent(bl_params, "blnamespace") <=> bl_ns.some
             /\ bl_ns.some =>
                  /\ {bl_params["blnamespace"][k] : k \in DOMAIN bl_params["blnamespace"]}
                        = bl_ns.set
                  /\ Len(bl_params["blnamespace"]) = Cardinality(bl_ns.set)
C14_Witness ==
    /\ bl_pc = "returned" /\ bl_err = ""
    /\ bl_level_2
    /\ bl_ns = SomeNs({NS_TALK})
    /\ bl_result = {Title(NS_TALK, "A")}
    /\ \E i \in DOMAIN Reached(bl_res) :
          /\ ~IsRedirect(Reached(bl_res)[i])
          /\ new_from_api_result(Reached(bl_res)[i]) = Title(NS_MAIN, "A")
    /\ \E i \in DOMAIN Reached(bl_res) :
          /\ IsRedirect(Reached(bl_res)[i])
          /\ new_from_api_result(Reached(bl_res)[i]) = Title(NS_TALK, "C")

\* C15: get_prefix_index_one returns the empty set without any request when
\* the namespace filter is constrained and lacks the title's namespace;
\* otherwise it sends exactly one allpages request, whose apnamespace is the
\* title's own namespace.
C15_PrefixIndexShortCircuit ==
    IF px_ns.some /\ px_title.ns \notin px_ns.set
    THEN /\ px_requests = <<>>
         /\ px_pc = "returned" => px_result = {} /\ px_err = ""
    ELSE px_pc \in {"requested", "returned"} =>
            /\ Len(px_requests) = 1
            /\ px_requests[1].list = "allpages"
            /\ px_requests[1].apnamespace = px_title.ns
C15_Witness ==
    /\ px_pc = "returned"
    /\ px_ns = SomeNs({NS_TALK})
    /\ px_title = Title(NS_MAIN, "A")
    /\ px_requests = <<>>

-----------------------------------------------------------------------------
\* Properties of the page writers.

\* C17: transport access is serialized by the API_SERVICE mutex: at most one
\* request of the page writers (page-info get, revisions get, edit post) is in
\* flight at any time, the mutex being held by the routine whose request it is
\* from before the request is sent until its response has been received.
C17_TransportSerialized ==
    /\ Cardinality(in_flight) <= 1
    /\ \A r \in in_flight : lock = r.writer

-----------------------------------------------------------------------------
\* Well-formedness of the optimizer's output.

\* register r has exactly one producer in p, before position i
DefinedOnceBefore(p, r, i) ==
    /\ Cardinality({j \in DOMAIN p : p[j].dest = r}) = 1
    /\ \E j \in DOMAIN p : j < i /\ p[j].dest = r
\* every operand of every instruction of p, and the result register r, is the
\* dest of exactly one instruction, which comes before each of its consumers
WellFormed(p, r) ==
    /\ \A i \in DOMAIN p : \A op \in Operands(p[i]) : DefinedOnceBefore(p, op, i)
    /\ DefinedOnceBefore(p, r, Len(p) + 1)

\* C18: the optimizer's output is well formed whenever its input is: after
\* remove_nop every operand register and the result register is the dest of
\* exactly one earlier instruction, and the solve of the optimized program
\* does not fail with MissingRegister.
C18_OptimizedIsWellFormed ==
    (AfterNop /\ WellFormed(orig, Root(orig))) =>
        /\ WellFormed(ir, Root(orig))
        /\ solve_api(ir, Root(orig)).error # "MissingRegister"

-----------------------------------------------------------------------------
\* Properties of remove_redundent_talk.

TalkRunning == round = 1 /\ pc = "talk"
IsToggle(p, k) == p[k].kind = "Toggle"
\* the positions of p that produce register r
Producers(p, r) == {j \in DOMAIN p : p[j].dest = r}
\* the maximal producer/consumer chains of Toggles of p, as sequences of
\* positions: the operand of the first is not produced by a Toggle, each next
\* one reads the one before it, and no Toggle reads the last
ToggleChains(p) ==
    {c \in UNION {[1..n -> DOMAIN p] : n \in 1..Len(p)} :
        /\ \A i \in DOMAIN c : IsToggle(p, c[i])
        /\ \A i \in 1..(Len(c) - 1) : p[c[i + 1]].op1 = p[c[i]].dest
        /\ \A j \in Producers(p, p[c[1]].op1) : ~IsToggle(p, j)
        /\ \A k \in DOMAIN p : IsToggle(p, k) => p[k].op1 # p[c[Len(c)]].dest}
\* one iteration rewrites nothing, or one producer/consumer pair of Toggles
\* that the pass has not rewritten before, each into the Nop of its dest and op
PairwiseStep ==
    TalkRunning =>
        LET changed == {k \in DOMAIN ir : ir'[k] # ir[k]}
        IN /\ Len(ir') = Len(ir)
           /\ \A k \in changed :
                /\ ir[k] = orig[k]
                /\ IsToggle(ir, k)
                /\ ir'[k] = Nop(ir[k].dest, ir[k].op1)
           /\ changed # {} =>
                /\ Cardinality(changed) = 2
                /\ idx + 1 \in changed
                /\ \A j \in changed \ {idx + 1} : ir[idx + 1].op1 = ir[j].dest
\* the iteration on a Toggle whose operand is not, or no longer, produced by a
\* Toggle rewrites nothing
LoneToggleStep ==
    (/\ TalkRunning
     /\ idx < Len(ir)
     /\ IsToggle(ir, idx + 1)
     /\ \A j \in Producers(ir, ir[idx + 1].op1) : ~IsToggle(ir, j))
        => ir' = ir
\* of a chain of n Toggles n mod 2 are Toggles when the pass has returned, the
\* others are the Nops of their dest and op
ChainsCancelled ==
    AfterTalk =>
        \A c \in ToggleChains(orig) :
            /\ Cardinality({i \in DOMAIN c : IsToggle(ir, c[i])}) = Len(c) % 2
            /\ \A i \in DOMAIN c :
                 \/ ir[c[i]] = orig[c[i]]
                 \/ ir[c[i]] = Nop(orig[c[i]].dest, orig[c[i]].op1)

\* C21: remove_redundent_talk cancels Toggles pairwise in one left-to-right
\* scan: each Toggle is rewritten as a member of at most one cancelled pair, a
\* Toggle whose operand's producer is not (or no longer) a Toggle is left
\* unchanged, and a producer/consumer chain of n consecutive Toggles ends with
\* exactly n mod 2 Toggles, all others being Nops with their dest and op.
C21_TogglesCancelPairwise ==
    /\ [][PairwiseStep]_vars
    /\ [][LoneToggleStep]_vars
    /\ []ChainsCancelled

-----------------------------------------------------------------------------
\* Properties of write_by_output_format.

\* the page-info request of routine w succeeded and reported a page that
\* exists, is no redirect and lies outside the denied namespaces
GoodInfo(w) ==
    /\ pw_info[w].result = "Ok"
    /\ ~pw_info[w].missing
    /\ ~pw_info[w].redirect
    /\ denied_namespace(w).some => pw_info[w].ns \notin denied_namespace(w).set
\* routine w is at or past the query executor on its current page
PastInfo(w) == pw_pc[w].at = "execute" \/ pw_pc[w].req \in {"revisions", "edit"}

\* C22: write_by_output_format runs the query executor and sends an edit
\* request only after the page-info request has succeeded and reported the
\* target page as existing, not a redirect and outside denied_namespace; in
\* every other case the routine goes on to its next page with neither.
C22_EditOnlyAfterGoodInfo ==
    /\ [](\A w \in Writers : PastInfo(w) => GoodInfo(w))
    /\ [](\A r \in in_flight : r.kind = "edit" => GoodInfo(r.writer))
    /\ [][\A w \in Writers :
            (pw_pc[w] = At("wait", "info") /\ pw_pc'[w] # pw_pc[w] /\ ~GoodInfo(w)')
                => /\ pw_page'[w] = pw_page[w] + 1
                   /\ ~PastInfo(w)'
                   /\ in_flight' \subseteq in_flight]_vars
C22_Witness ==
    /\ [writer |-> 1, kind |-> "edit"] \in in_flight
    /\ pw_page[2] = 2
    /\ pw_pc[2] = At("lock", "info")
    /\ pw_info[2] = [result |-> "Ok", missing |-> FALSE, redirect |-> FALSE,
                     ns |-> NS_TALK]

====
